---- MODULE Spec2Model ----
(***************************************************************************)
(* NN-CLI DataLoader: the asynchronous sample provider built by            *)
(* DataLoader::makeSampleProvider (src/NN-CLI_DataLoader.cpp:198-287).     *)
(*                                                                         *)
(* Two threads share one PrefetchState: the caller of the provider lambda  *)
(* and the persistent prefetch worker.  Every access to the PrefetchState  *)
(* fields happens inside a critical section of state->mutex, so each       *)
(* critical section is one atomic step; the materialization (loadBatch)    *)
(* runs outside the lock and is a step of its own, and so is every         *)
(* notify_one.  A condition-variable wait is the predicate check under the *)
(* lock followed, when the predicate is false, by the atomic release of    *)
(* the lock and the entry into the wait set; a woken thread reacquires the *)
(* lock and checks the predicate again.  Spurious wakeups are steps.       *)
(*                                                                         *)
(* Entry indices are 0-based as in the code; TLA+ sequences are 1-based,   *)
(* so entry i of a vector v is v[i + 1].                                   *)
(*                                                                         *)
(* Further specifications over the same variables: FailSpec is the         *)
(* provider with materializations that can throw, DriverSpec the provider  *)
(* with a caller that leaves the epoch order, PlanSpec the loader with     *)
(* planAugmentation (lines 105-158), loadFromMemory and loadBatch,         *)
(* LoadSpec the materialization of the entries of a planned loader,        *)
(* TrainSpec one mini-batch of the parallel gradient accumulator and       *)
(* RunSpec one run of the command line (sample loading, checkpoints).      *)
(***************************************************************************)
EXTENDS Integers, Sequences, FiniteSets, TLC

\* ---- bounds of the model ------------------------------------------------
MaxLen == 3      \* largest number of entries of the loader (length of an index list)
MaxBatch == 2    \* largest batch size
MaxCalls == 6    \* number of provider calls made on one provider

\* ---- helpers -------------------------------------------------------------
Min(a, b) == IF a < b THEN a ELSE b

\* std::vector range [first, last) of a 0-based vector
Slice(v, first, last) == SubSeq(v, first + 1, last)

\* the shuffled index lists a caller passes, each a permutation of 0..n-1:
\* ascending, descending, and ascending rotated left by one
Ascending(n) == [i \in 1..n |-> i - 1]
Descending(n) == [i \in 1..n |-> n - i]
Rotated(n) == [i \in 1..n |-> i % n]
ShuffledLists(n) == { Ascending(n), Descending(n), Rotated(n) }

\* ---- loader state --------------------------------------------------------
NumClasses == 3

\* memorySamples[i]: input = {i}, output = one-hot of i % numClasses
MemorySample(i) ==
  [input |-> << i >>,
   output |-> [c \in 1..NumClasses |-> IF c - 1 = i % NumClasses THEN 1 ELSE 0]]

\* loadFromMemory: entries is the 1:1 mapping {i, false}
LoadFromMemoryEntries(n) == [i \in 1..n |-> [sourceIndex |-> i - 1, augmented |-> FALSE]]

VARIABLES
  entries,         \* DataLoader::entries
  \* PrefetchState
  requestIndices, hasRequest, result, hasResult, shutdown,
  workerCVWaiting, \* the worker is in the wait set of workerCV
  callerCVWaiting, \* the caller is in the wait set of callerCV
  \* worker thread
  wpc, wIndices, wBatch,
  \* caller thread: the provider call in progress (or the last one made)
  cpc, sampleIndices, batchSize, batchIndex, batch,
  \* history
  calls,           \* provider calls started so far
  epoch,           \* number of calls with batchIndex = 0 so far
  epochOut,        \* concatenation of the batches returned in this epoch
  owed,            \* the batch the worker owed the caller when the call began
  didSync,         \* this call materialized on the calling thread
  prevIndices,     \* the index list of the previous epoch
  destroyedIn,     \* the phase the provider was in when its destruction began
  freed,           \* the PrefetchState has been released
  useAfterFree,    \* the worker touched the PrefetchState after its release
  callerWrote,     \* the call in progress has written the PrefetchState
  earlyEpoch,      \* the call in progress began a new epoch before the last batch
                   \* of the epoch before it was asked for
  \* loader: original samples, augmentation configuration, history of the plan
  memorySamples,   \* DataLoader::memorySamples
  augmentationFactor, balanceAugmentation,
  plans,           \* planAugmentation calls since the samples were loaded
  loads,           \* loadFromMemory calls so far
  planLog,         \* what each planAugmentation on a freshly loaded loader produced
  materialized,    \* loadBatch calls made on the loader outside a provider
  planThrew,       \* the last planAugmentation ended with an exception
  sample,          \* the sample the last loadBatch outside a provider returned
  sampleEntry,     \* the entry index it materialized
  \* trainer (CoreCPU::train): one mini-batch
  numThreads, mergeStrategy, trainSamples,
  accum,           \* the shared accumulator
  workers,         \* per worker: position, next sample of its chunk, private accumulator
  mpc,             \* position of the training thread
  applied,         \* the accumulator value the update step applied
  merged,          \* per sample: how often its gradient went into the shared accumulator
  readWhileMerging, \* the update step read the accumulator before every worker had merged
  reported,        \* per sample: progress callbacks fired for it, progress lines printed for it
  \* runner (Runner::run in training or test mode)
  hasJsonSamples, hasIdxData, hasIdxLabels,   \* parser.isSet of the three options
  networkType, mode,
  rpc,             \* position of the run
  loadSuccess,     \* second component of the pair loadXSamplesFromOptions returned
  samplesFrom,     \* the format the samples were loaded from
  exitCode,        \* what Runner::run returned
  saveModelInterval,
  lastCallbackEpoch,
  callbacks,       \* currentEpoch of the training callbacks made so far
  checkpoints      \* checkpoints written: the epoch, and the callback that wrote it

pstate == << requestIndices, hasRequest, result, hasResult, shutdown >>
cvs == << workerCVWaiting, callerCVWaiting >>
wvars == << wpc, wIndices, wBatch >>
cvars == << cpc, sampleIndices, batchSize, batchIndex, batch >>
hist == << calls, epoch, epochOut, owed, didSync, prevIndices, destroyedIn, freed, useAfterFree >>
planvars == << memorySamples, augmentationFactor, balanceAugmentation,
              plans, loads, planLog, materialized, planThrew, sample, sampleEntry >>
trainvars == << numThreads, mergeStrategy, trainSamples, accum, workers, mpc,
               applied, merged, readWhileMerging, reported >>
runvars == << hasJsonSamples, hasIdxData, hasIdxLabels, networkType, mode, rpc,
             loadSuccess, samplesFrom, exitCode,
             saveModelInterval, lastCallbackEpoch, callbacks, checkpoints >>
drivervars == << earlyEpoch >>
others == << planvars, trainvars, runvars, drivervars >>
vars == << entries, pstate, cvs, wvars, cvars, hist, callerWrote, others >>

\* ---- pure functions ------------------------------------------------------
\* DataLoader<ANN::Sample<float>>::loadSample, in-memory source: a copy of the
\* source sample; entries created by loadFromMemory are never augmented
loadSample(ents, entryIndex) == MemorySample(ents[entryIndex + 1].sourceIndex)

\* DataLoader::loadBatch: one sample per entry index, in order
loadBatch(ents, entryIndices) ==
  [k \in 1..Len(entryIndices) |-> loadSample(ents, entryIndices[k])]

\* the provider's range arithmetic (lines 242-244, 271-273)
Start(bi, bs) == bi * bs
End(bi, bs, n) == Min(Start(bi, bs) + bs, n)

\* a provider that materializes every batch on the calling thread
SyncProvider(ents, indices, bs, bi) ==
  IF Start(bi, bs) < Len(indices)
    THEN loadBatch(ents, Slice(indices, Start(bi, bs), End(bi, bs, Len(indices))))
    ELSE << >>

\* the loader holds its samples unaugmented, no plan was asked for
PlannerOff ==
  /\ plans = 0 /\ loads = 1 /\ planLog = {} /\ materialized = 0 /\ planThrew = FALSE
  /\ sample = [input |-> << >>, output |-> << >>] /\ sampleEntry = 0

\* no mini-batch is being trained
TrainerOff ==
  /\ numThreads = 0 /\ mergeStrategy = "none" /\ trainSamples = 0
  /\ accum = 0 /\ workers = << >> /\ mpc = "off"
  /\ applied = 0 /\ merged = << >> /\ readWhileMerging = FALSE
  /\ reported = << >>

\* no run of the command line is modelled
RunnerOff ==
  /\ hasJsonSamples = FALSE /\ hasIdxData = FALSE /\ hasIdxLabels = FALSE
  /\ networkType = "none" /\ mode = "none" /\ rpc = "off"
  /\ loadSuccess = FALSE /\ samplesFrom = "none" /\ exitCode = "none"
  /\ saveModelInterval = 0 /\ lastCallbackEpoch = 0
  /\ callbacks = << >> /\ checkpoints = << >>

\* ---- initial state: loadFromMemory, then makeSampleProvider -------------
Init ==
  /\ \E n \in 1..MaxLen : entries = LoadFromMemoryEntries(n)
  /\ requestIndices = << >> /\ hasRequest = FALSE
  /\ result = << >> /\ hasResult = FALSE /\ shutdown = FALSE
  /\ workerCVWaiting = FALSE /\ callerCVWaiting = FALSE
  /\ wpc = "wait" /\ wIndices = << >> /\ wBatch = << >>
  /\ cpc = "idle" /\ sampleIndices = << >> /\ batchIndex = 0 /\ batch = << >>
  /\ batchSize \in 1..MaxBatch
  /\ calls = 0 /\ epoch = 0 /\ epochOut = << >>
  /\ owed = << >> /\ didSync = FALSE /\ prevIndices = << >> /\ destroyedIn = "none"
  /\ freed = FALSE /\ useAfterFree = FALSE
  /\ callerWrote = FALSE
  /\ earlyEpoch = FALSE
  /\ memorySamples = [i \in 1..Len(entries) |-> MemorySample(i - 1)]
  /\ augmentationFactor = 0 /\ balanceAugmentation = FALSE
  /\ PlannerOff
  /\ TrainerOff
  /\ RunnerOff

\* ---- the worker thread (lines 210-235) ----------------------------------
\* every step of the worker that dereferences statePtr
Touch == useAfterFree' = (useAfterFree \/ freed)

\* WorkerWait whose wait predicate is hasRequest alone
WorkerWait_WorkOnly ==
  /\ wpc = "wait"
  /\ IF ~hasRequest
       THEN /\ workerCVWaiting' = TRUE
            /\ wpc' = "sleep"
            /\ UNCHANGED << requestIndices, hasRequest, wIndices >>
       ELSE IF shutdown
         THEN /\ wpc' = "done"
              /\ UNCHANGED << requestIndices, hasRequest, wIndices, workerCVWaiting >>
         ELSE /\ wIndices' = requestIndices
              /\ requestIndices' = << >>
              /\ hasRequest' = FALSE
              /\ wpc' = "load"
              /\ UNCHANGED workerCVWaiting
  /\ Touch
  /\ UNCHANGED << entries, result, hasResult, shutdown, callerCVWaiting, wBatch, cvars,
                  calls, epoch, epochOut, owed, didSync, prevIndices, destroyedIn, freed >>
  /\ UNCHANGED << callerWrote, others >>

\* lines 215-221: the wait on workerCV and what follows it under the lock
WorkerWait ==
  /\ wpc = "wait"
  /\ IF ~(hasRequest \/ shutdown)
       THEN /\ workerCVWaiting' = TRUE
            /\ wpc' = "sleep"
            /\ UNCHANGED << requestIndices, hasRequest, wIndices >>
       ELSE IF shutdown
         THEN /\ wpc' = "done"
              /\ UNCHANGED << requestIndices, hasRequest, wIndices, workerCVWaiting >>
         ELSE /\ wIndices' = requestIndices
              /\ requestIndices' = << >>
              /\ hasRequest' = FALSE
              /\ wpc' = "load"
              /\ UNCHANGED workerCVWaiting
  /\ Touch
  /\ UNCHANGED << entries, result, hasResult, shutdown, callerCVWaiting, wBatch, cvars,
                  calls, epoch, epochOut, owed, didSync, prevIndices, destroyedIn, freed >>
  /\ UNCHANGED << callerWrote, others >>

\* line 216: the worker leaves the wait set once notified and checks again
WorkerWake ==
  /\ wpc = "sleep" /\ ~workerCVWaiting
  /\ wpc' = "wait"
  /\ Touch
  /\ UNCHANGED << entries, pstate, cvs, wIndices, wBatch, cvars,
                  calls, epoch, epochOut, owed, didSync, prevIndices, destroyedIn, freed >>
  /\ UNCHANGED << callerWrote, others >>

\* line 225: the materialization, outside the lock
WorkerLoad ==
  /\ wpc = "load"
  /\ wBatch' = loadBatch(entries, wIndices)
  /\ wpc' = "publish"
  /\ UNCHANGED << entries, pstate, cvs, wIndices, cvars, hist >>
  /\ UNCHANGED << callerWrote, others >>

\* lines 227-231: publish the result
WorkerPublish ==
  /\ wpc = "publish"
  /\ result' = wBatch
  /\ wBatch' = << >>
  /\ hasResult' = TRUE
  /\ wpc' = "notify"
  /\ Touch
  /\ UNCHANGED << entries, requestIndices, hasRequest, shutdown, cvs, wIndices, cvars,
                  calls, epoch, epochOut, owed, didSync, prevIndices, destroyedIn, freed >>
  /\ UNCHANGED << callerWrote, others >>

\* WorkerNotify without the notification: the worker publishes and goes on
WorkerNotify_Forgotten ==
  /\ wpc = "notify"
  /\ wpc' = "wait"
  /\ Touch
  /\ UNCHANGED << entries, pstate, cvs, wIndices, wBatch, cvars,
                  calls, epoch, epochOut, owed, didSync, prevIndices, destroyedIn, freed >>
  /\ UNCHANGED << callerWrote, others >>

\* line 233: callerCV.notify_one()
WorkerNotify ==
  /\ wpc = "notify"
  /\ callerCVWaiting' = FALSE
  /\ wpc' = "wait"
  /\ Touch
  /\ UNCHANGED << entries, pstate, workerCVWaiting, wIndices, wBatch, cvars,
                  calls, epoch, epochOut, owed, didSync, prevIndices, destroyedIn, freed >>
  /\ UNCHANGED << callerWrote, others >>

\* a condition variable may wake its waiter without a notification
SpuriousWakeWorker ==
  /\ wpc = "sleep" /\ workerCVWaiting
  /\ workerCVWaiting' = FALSE
  /\ UNCHANGED << entries, pstate, callerCVWaiting, wvars, cvars, hist >>
  /\ UNCHANGED << callerWrote, others >>

SpuriousWakeCaller ==
  /\ cpc = "wait" /\ callerCVWaiting
  /\ callerCVWaiting' = FALSE
  /\ UNCHANGED << entries, pstate, workerCVWaiting, wvars, cvars, hist >>
  /\ UNCHANGED << callerWrote, others >>

\* ---- the provider lambda, run by the caller thread (lines 240-286) ------
\* the batch the worker owes the caller: the oldest request handed over whose
\* result has not been consumed (published, in flight, or still pending)
Owed ==
  IF hasResult THEN result
  ELSE IF wpc = "publish" THEN wBatch
  ELSE IF wpc = "load" THEN loadBatch(entries, wIndices)
  ELSE IF hasRequest THEN loadBatch(entries, requestIndices)
  ELSE << >>

\* lines 241-246: the call begins
Call(indices, bi) ==
  /\ cpc = "idle" /\ calls < MaxCalls
  /\ sampleIndices' = indices
  /\ batchIndex' = bi
  /\ batch' = << >>
  /\ cpc' = "check"
  /\ calls' = calls + 1
  /\ epoch' = IF bi = 0 THEN epoch + 1 ELSE epoch
  /\ epochOut' = IF bi = 0 THEN << >> ELSE epochOut
  /\ owed' = Owed
  /\ didSync' = FALSE
  /\ prevIndices' = IF bi = 0 THEN sampleIndices ELSE prevIndices
  /\ UNCHANGED << entries, pstate, cvs, wvars, batchSize, destroyedIn, freed, useAfterFree >>
  /\ callerWrote' = FALSE
  /\ UNCHANGED << planvars, trainvars, runvars >>

\* the training loop drives the provider: one call per batch, epoch after epoch,
\* each epoch over a freshly shuffled index list
TrainingLoopCall ==
  /\ cpc = "idle" /\ calls < MaxCalls
  /\ IF calls = 0 \/ End(batchIndex, batchSize, Len(sampleIndices)) >= Len(sampleIndices)
       THEN \E indices \in ShuffledLists(Len(entries)) : Call(indices, 0)
       ELSE Call(sampleIndices, batchIndex + 1)
  /\ earlyEpoch' = FALSE

\* lines 254-255 and 259-260: take the prefetched batch
TakeResult ==
  /\ batch' = result
  /\ result' = << >>
  /\ hasResult' = FALSE

\* CallerCheck that withdraws a pending request instead of waiting for its result
CallerCheck_Withdraws ==
  /\ cpc = "check"
  /\ IF hasResult
       THEN /\ TakeResult
            /\ UNCHANGED hasRequest
       ELSE /\ hasRequest' = FALSE
            /\ UNCHANGED << batch, result, hasResult >>
  /\ cpc' = "sync"
  /\ UNCHANGED << entries, requestIndices, shutdown, cvs, wvars,
                  sampleIndices, batchSize, batchIndex, hist >>
  /\ callerWrote' = TRUE
  /\ UNCHANGED others

\* lines 249-262: was this batch prefetched?
CallerCheck ==
  /\ cpc = "check"
  /\ IF hasResult
       THEN /\ TakeResult
            /\ cpc' = "sync"
            /\ UNCHANGED callerCVWaiting
       ELSE IF hasRequest
         THEN /\ callerCVWaiting' = TRUE
              /\ cpc' = "wait"
              /\ UNCHANGED << batch, result, hasResult >>
         ELSE /\ cpc' = "sync"
              /\ UNCHANGED << batch, result, hasResult, callerCVWaiting >>
  /\ UNCHANGED << entries, requestIndices, hasRequest, shutdown, workerCVWaiting, wvars,
                  sampleIndices, batchSize, batchIndex, hist >>
  /\ callerWrote' = (callerWrote \/ hasResult)
  /\ UNCHANGED others

\* lines 258-260: the caller leaves the wait set once notified and checks hasResult
CallerWake ==
  /\ cpc = "wait" /\ ~callerCVWaiting
  /\ IF hasResult
       THEN /\ TakeResult
            /\ cpc' = "sync"
            /\ UNCHANGED callerCVWaiting
       ELSE /\ callerCVWaiting' = TRUE
            /\ UNCHANGED << batch, result, hasResult, cpc >>
  /\ UNCHANGED << entries, requestIndices, hasRequest, shutdown, workerCVWaiting, wvars,
                  sampleIndices, batchSize, batchIndex, hist >>
  /\ callerWrote' = (callerWrote \/ hasResult)
  /\ UNCHANGED others

\* lines 264-268: no prefetch was available, load synchronously
CallerSync ==
  /\ cpc = "sync"
  /\ IF batch = << >> /\ Start(batchIndex, batchSize) < Len(sampleIndices)
       THEN /\ batch' = loadBatch(entries, Slice(sampleIndices, Start(batchIndex, batchSize),
                                    End(batchIndex, batchSize, Len(sampleIndices))))
            /\ didSync' = TRUE
       ELSE UNCHANGED << batch, didSync >>
  /\ cpc' = "submit"
  /\ UNCHANGED << entries, pstate, cvs, wvars, sampleIndices, batchSize, batchIndex,
                  calls, epoch, epochOut, owed, prevIndices, destroyedIn, freed, useAfterFree >>
  /\ UNCHANGED << callerWrote, others >>

\* CallerSubmit that asks the worker for the range of the call itself
CallerSubmit_SameRange ==
  /\ cpc = "submit"
  /\ LET numSamples == Len(sampleIndices)
         nextStart == End(batchIndex, batchSize, numSamples)
     IN IF nextStart < numSamples
          THEN /\ requestIndices' = Slice(sampleIndices, Start(batchIndex, batchSize), nextStart)
               /\ hasRequest' = TRUE
               /\ cpc' = "notify"
          ELSE /\ cpc' = "return"
               /\ UNCHANGED << requestIndices, hasRequest >>
  /\ UNCHANGED << entries, result, hasResult, shutdown, cvs, wvars,
                  sampleIndices, batchSize, batchIndex, batch, hist >>
  /\ callerWrote' = (callerWrote \/ cpc' = "notify")
  /\ UNCHANGED others

\* lines 270-280: submit the prefetch request for the next batch
CallerSubmit ==
  /\ cpc = "submit"
  /\ LET numSamples == Len(sampleIndices)
         nextStart == End(batchIndex, batchSize, numSamples)
         nextEnd == Min(nextStart + batchSize, numSamples)
     IN IF nextStart < numSamples
          THEN /\ requestIndices' = Slice(sampleIndices, nextStart, nextEnd)
               /\ hasRequest' = TRUE
               /\ cpc' = "notify"
          ELSE /\ cpc' = "return"
               /\ UNCHANGED << requestIndices, hasRequest >>
  /\ UNCHANGED << entries, result, hasResult, shutdown, cvs, wvars,
                  sampleIndices, batchSize, batchIndex, batch, hist >>
  /\ callerWrote' = (callerWrote \/ cpc' = "notify")
  /\ UNCHANGED others

\* line 282: workerCV.notify_one()
CallerNotify ==
  /\ cpc = "notify"
  /\ workerCVWaiting' = FALSE
  /\ cpc' = "return"
  /\ UNCHANGED << entries, pstate, callerCVWaiting, wvars,
                  sampleIndices, batchSize, batchIndex, batch, hist >>
  /\ UNCHANGED << callerWrote, others >>

\* line 285: return batch
CallerReturn ==
  /\ cpc = "return"
  /\ epochOut' = epochOut \o batch
  /\ cpc' = "idle"
  /\ UNCHANGED << entries, pstate, cvs, wvars, sampleIndices, batchSize, batchIndex, batch,
                  calls, epoch, owed, didSync, prevIndices, destroyedIn, freed, useAfterFree >>
  /\ UNCHANGED << callerWrote, others >>

\* the phase of the provider (section 4.2 of the design)
ProviderPhase ==
  IF wpc \in {"load", "publish"} THEN "inflight"
  ELSE IF hasRequest THEN "pending"
  ELSE IF hasResult THEN "ready"
  ELSE "idle"

\* ---- destruction of the last copy of the provider -----------------------
\* PrefetchState::~PrefetchState: request shutdown, wake the worker, join it,
\* and only then release the state
Destroy ==
  /\ cpc = "idle"
  /\ shutdown' = TRUE
  /\ cpc' = "d_notify"
  /\ destroyedIn' = ProviderPhase
  /\ UNCHANGED << entries, requestIndices, hasRequest, result, hasResult, cvs, wvars,
                  sampleIndices, batchSize, batchIndex, batch,
                  calls, epoch, epochOut, owed, didSync, prevIndices, freed, useAfterFree >>
  /\ UNCHANGED << callerWrote, others >>

DestroyNotify ==
  /\ cpc = "d_notify"
  /\ workerCVWaiting' = FALSE
  /\ cpc' = "d_join"
  /\ UNCHANGED << entries, pstate, callerCVWaiting, wvars,
                  sampleIndices, batchSize, batchIndex, batch, hist >>
  /\ UNCHANGED << callerWrote, others >>

\* DestroyJoin that releases the state without joining the worker
DestroyJoin_NoJoin ==
  /\ cpc = "d_join"
  /\ freed' = TRUE
  /\ cpc' = "destroyed"
  /\ UNCHANGED << entries, pstate, cvs, wvars, sampleIndices, batchSize, batchIndex, batch,
                  calls, epoch, epochOut, owed, didSync, prevIndices, destroyedIn, useAfterFree >>
  /\ UNCHANGED << callerWrote, others >>

DestroyJoin ==
  /\ cpc = "d_join"
  /\ wpc = "done"
  /\ freed' = TRUE
  /\ cpc' = "destroyed"
  /\ UNCHANGED << entries, pstate, cvs, wvars, sampleIndices, batchSize, batchIndex, batch,
                  calls, epoch, epochOut, owed, didSync, prevIndices, destroyedIn, useAfterFree >>
  /\ UNCHANGED << callerWrote, others >>

\* ---- specifications ------------------------------------------------------
WorkerStep == WorkerWait \/ WorkerWake \/ WorkerLoad \/ WorkerPublish \/ WorkerNotify

\* the steps of a provider call in progress and of a destruction in progress
CallerStep ==
  \/ CallerCheck \/ CallerWake \/ CallerSync \/ CallerSubmit \/ CallerNotify \/ CallerReturn
  \/ DestroyNotify \/ DestroyJoin

Next ==
  \/ TrainingLoopCall
  \/ CallerCheck
  \/ CallerWake
  \/ CallerSync
  \/ CallerSubmit
  \/ CallerNotify
  \/ CallerReturn
  \/ Destroy
  \/ DestroyNotify
  \/ DestroyJoin
  \/ WorkerWait
  \/ WorkerWake
  \/ WorkerLoad
  \/ WorkerPublish
  \/ WorkerNotify
  \/ SpuriousWakeWorker
  \/ SpuriousWakeCaller

Spec == Init /\ [][Next]_vars

\* both threads are scheduled: a thread that can take a step eventually takes one
FairSpec == Spec /\ WF_vars(WorkerStep) /\ WF_vars(CallerStep)

TypeOK ==
  /\ hasRequest \in BOOLEAN /\ hasResult \in BOOLEAN /\ shutdown \in BOOLEAN
  /\ wpc \in {"wait", "sleep", "load", "publish", "notify", "done"}
  /\ cpc \in {"idle", "check", "wait", "sync", "submit", "notify", "return",
              "d_notify", "d_join", "destroyed"}

\* ---- a caller that does not follow the epoch order ------------------------
\* the caller starts a new epoch, with batchIndex = 0 and another index list,
\* although the epoch in progress has batches left
EarlyEpochCall ==
  /\ cpc = "idle" /\ calls > 0 /\ calls < MaxCalls
  /\ End(batchIndex, batchSize, Len(sampleIndices)) < Len(sampleIndices)
  /\ \E indices \in ShuffledLists(Len(entries)) \ { sampleIndices } : Call(indices, 0)
  /\ earlyEpoch' = TRUE

\* the number of batches of an epoch over n indices
NumBatches(n, bs) == (n + bs - 1) \div bs

\* the caller asks for the batch behind the last batch of the index list: on
\* a fresh provider, or once more after the epoch's last call
OutOfRangeCall ==
  /\ cpc = "idle" /\ calls < MaxCalls
  /\ IF calls = 0
       THEN Call(Ascending(Len(entries)), NumBatches(Len(entries), batchSize))
       ELSE /\ End(batchIndex, batchSize, Len(sampleIndices)) >= Len(sampleIndices)
            /\ Start(batchIndex, batchSize) < Len(sampleIndices)
            /\ Call(sampleIndices, batchIndex + 1)
  /\ earlyEpoch' = FALSE

DriverNext ==
  \/ Next
  \/ EarlyEpochCall
  \/ OutOfRangeCall

\* the provider with a caller that may leave the epoch order
DriverSpec == Init /\ [][DriverNext]_vars

\* ---- failing materializations -------------------------------------------
\* loadSample can throw (ImageLoader::loadImage on a manifest entry, the copy
\* of a sample), and so can loadBatch; whether a load fails is the environment's choice

\* CallerSyncFails of a lambda that submits the next request before it loads
CallerSyncFails_AfterSubmit ==
  /\ cpc = "sync"
  /\ batch = << >> /\ Start(batchIndex, batchSize) < Len(sampleIndices)
  /\ LET nextStart == End(batchIndex, batchSize, Len(sampleIndices))
         nextEnd == Min(nextStart + batchSize, Len(sampleIndices))
     IN IF nextStart < Len(sampleIndices)
          THEN /\ requestIndices' = Slice(sampleIndices, nextStart, nextEnd)
               /\ hasRequest' = TRUE
               /\ callerWrote' = TRUE
          ELSE UNCHANGED << requestIndices, hasRequest, callerWrote >>
  /\ cpc' = "failed"
  /\ UNCHANGED << entries, result, hasResult, shutdown, cvs, wvars,
                  sampleIndices, batchSize, batchIndex, batch, hist, others >>

\* lines 264-268: loadBatch throws on the calling thread; no lock is held and
\* nothing catches, so the exception leaves the lambda before lines 270-283
CallerSyncFails ==
  /\ cpc = "sync"
  /\ batch = << >> /\ Start(batchIndex, batchSize) < Len(sampleIndices)
  /\ cpc' = "failed"
  /\ UNCHANGED << entries, pstate, cvs, wvars,
                  sampleIndices, batchSize, batchIndex, batch, hist, callerWrote, others >>

\* WorkerLoadFails of a worker that hands the error over through the result slot
WorkerLoadFails_Marshalled ==
  /\ wpc = "load"
  /\ result' = << "error" >>
  /\ hasResult' = TRUE
  /\ wpc' = "notify"
  /\ UNCHANGED << entries, requestIndices, hasRequest, shutdown, cvs, wIndices, wBatch,
                  cvars, hist, callerWrote, others >>

\* line 225: loadBatch throws on the worker thread; the thread function has
\* no handler, so std::terminate ends the process: lines 227-233 never run
\* and no thread takes another step
WorkerLoadFails ==
  /\ wpc = "load"
  /\ wpc' = "terminated"
  /\ cpc' = "aborted"
  /\ UNCHANGED << entries, pstate, cvs, wIndices, wBatch,
                  sampleIndices, batchSize, batchIndex, batch, hist, callerWrote, others >>

FailNext ==
  \/ Next
  \/ CallerSyncFails
  \/ WorkerLoadFails

\* the provider in an environment where materializations can fail
FailSpec == Init /\ [][FailNext]_vars

\* ---- the augmentation plan (planAugmentation, lines 105-158) -------------
MaxOriginal == 3      \* largest number of original samples of a planned loader
MaxFactor == 2        \* largest augmentationFactor
MaxPlans == 2         \* planAugmentation calls made on one load
MaxLoads == 2         \* loadFromMemory calls made in one run
MaxMaterialized == 1  \* loadBatch calls made around the plans

Max(a, b) == IF a > b THEN a ELSE b

\* expected-output vectors of the original samples, one per class; the
\* maximum of the second is shared by two positions
OutputVectors == { << 1, 0, 0 >>, << 0, 1, 1 >>, << 0, 0, 1 >> }

\* the lists of original samples a loader can hold, of 0..n samples
SampleLists(n) ==
  UNION { { [i \in 1..k |-> [input |-> << i - 1 >>, output |-> o[i]]] :
              o \in [1..k -> OutputVectors] } : k \in 0..n }

getClassIndex_LastMaximum(output) ==
  IF output = << >> THEN 0
  ELSE (CHOOSE p \in 1..Len(output) :
          /\ \A q \in 1..Len(output) : output[q] <= output[p]
          /\ \A q \in (p + 1)..Len(output) : output[q] < output[p]) - 1

\* std::max_element (line 114): one scan from the front that moves to a later
\* position only if its value is greater
RECURSIVE max_element(_, _, _)
max_element(output, largest, it) ==
  IF it > Len(output) THEN largest
  ELSE max_element(output, IF output[largest] < output[it] THEN it ELSE largest, it + 1)

\* lines 112-115: the distance from begin() to the position max_element
\* returns (end() = begin() for an empty vector)
getClassIndex(output) ==
  IF output = << >> THEN 0 ELSE max_element(output, 1, 2) - 1

\* lines 117-124: class -> indices of its original samples, in original order
classIndices(samples) ==
  [cls \in { getClassIndex(samples[i].output) : i \in 1..Len(samples) } |->
     SelectSeq(Ascending(Len(samples)),
               LAMBDA i : getClassIndex(samples[i + 1].output) = cls)]

\* lines 126-128
maxClassCount(ci) ==
  IF DOMAIN ci = {} THEN 0
  ELSE CHOOSE m \in { Len(ci[c]) : c \in DOMAIN ci } : \A c \in DOMAIN ci : Len(ci[c]) <= m

\* targetCount that balances to the largest class without the factor
targetCount_FactorAdded(currentCount, maxCount, factor, balance) ==
  LET plain == IF factor > 0 THEN currentCount + currentCount * factor ELSE currentCount
      balancedTarget == IF factor > 0 THEN maxCount * factor ELSE maxCount
  IN IF balance THEN Max(plain, balancedTarget) ELSE plain

targetCount_BalanceWithoutFactor(currentCount, maxCount, factor, balance) ==
  LET plain == IF factor > 0 THEN currentCount * factor ELSE currentCount
  IN IF balance THEN Max(plain, maxCount) ELSE plain

\* lines 133-144: entries the class must have after the plan
targetCount(currentCount, maxCount, factor, balance) ==
  LET plain == IF factor > 0 THEN currentCount * factor ELSE currentCount
      balancedTarget == IF factor > 0 THEN maxCount * factor ELSE maxCount
  IN IF balance THEN Max(plain, balancedTarget) ELSE plain

\* line 146
toGenerate(currentCount, target) ==
  IF target > currentCount THEN target - currentCount ELSE 0

\* line 130: std::mt19937 rng(42)
PlanSeed == 42

\* a planner that shares its generator with the materialization
PlanRngSeed_Shared == PlanSeed + materialized

\* line 130: the seed is a literal, the generator is local to the call
PlanRngSeed == PlanSeed

\* the k-th number (k = 0, 1, ...) a generator seeded with seed produces: a
\* fixed function of the seed and of k (a congruential generator stands for
\* the Mersenne twister, whose actual numbers no property depends on)
RECURSIVE RngState(_, _)
RngState(seed, k) ==
  IF k = 0 THEN (seed * 13 + 7) % 64
  ELSE (RngState(seed, k - 1) * 13 + 7) % 64
Mt19937(seed, k) == RngState(seed, k) \div 4

\* line 149: uniform_int_distribution<ulong>(0, currentCount - 1) on draw number k
Dist(seed, k, currentCount) == Mt19937(seed, k) % currentCount

\* generateClass that takes the draw itself for the source index
generateClass_Unmapped(indices, n, seed, k0) ==
  [j \in 1..n |->
     [sourceIndex |-> Dist(seed, k0 + j - 1, Len(indices)), augmented |-> TRUE]]

\* lines 148-152: n synthetic entries of one class, drawn with replacement from
\* the class's original indices, on draws k0, k0 + 1, ...
generateClass(indices, n, seed, k0) ==
  [j \in 1..n |->
     [sourceIndex |-> indices[Dist(seed, k0 + j - 1, Len(indices)) + 1], augmented |-> TRUE]]

\* NextClass that walks the classes from the largest index down
NextClass_Descending(classes) == CHOOSE c \in classes : \A d \in classes : c >= d

\* the class the loop at line 132 takes next: std::map iterates in ascending key order
NextClass(classes) == CHOOSE c \in classes : \A d \in classes : c <= d

\* lines 132-153: the loop over the classes still to do; k0 draws were made so far
RECURSIVE planClasses(_, _, _, _, _, _, _)
planClasses(classes, ci, maxCount, factor, balance, seed, k0) ==
  IF classes = {} THEN << >>
  ELSE LET cls == NextClass(classes)
           currentCount == Len(ci[cls])
           n == toGenerate(currentCount, targetCount(currentCount, maxCount, factor, balance))
       IN generateClass(ci[cls], n, seed, k0)
            \o planClasses(classes \ {cls}, ci, maxCount, factor, balance, seed, k0 + n)

\* planAugmentation whose early return hands back an empty plan
planAugmentation_DropsOnEarlyReturn(ents, samples, factor, balance, seed) ==
  IF factor = 0 /\ ~balance THEN << >>
  ELSE IF Len(samples) = 0 THEN ents
  ELSE ents \o planClasses(DOMAIN classIndices(samples), classIndices(samples),
                           maxClassCount(classIndices(samples)), factor, balance, seed, 0)

\* lines 105-158: the entry list after planAugmentation(factor, balance)
planAugmentation(ents, samples, factor, balance, seed) ==
  IF factor = 0 /\ ~balance THEN ents
  ELSE IF Len(samples) = 0 THEN ents
  ELSE ents \o planClasses(DOMAIN classIndices(samples), classIndices(samples),
                           maxClassCount(classIndices(samples)), factor, balance, seed, 0)

\* planAugmentation that refuses an empty sample list when augmentation is asked for
planAugmentationThrows_RejectsEmpty(samples, factor, balance) ==
  Len(samples) = 0 /\ (factor > 0 \/ balance)

\* lines 105-158 hold no throw: both early returns (lines 108, 109) are silent
planAugmentationThrows(samples, factor, balance) == FALSE

\* the provider of the loader is not built
ProviderOff ==
  /\ requestIndices = << >> /\ hasRequest = FALSE
  /\ result = << >> /\ hasResult = FALSE /\ shutdown = FALSE
  /\ workerCVWaiting = FALSE /\ callerCVWaiting = FALSE
  /\ wpc = "unstarted" /\ wIndices = << >> /\ wBatch = << >>
  /\ cpc = "unbuilt" /\ sampleIndices = << >> /\ batchIndex = 0 /\ batch = << >>
  /\ batchSize = 1
  /\ calls = 0 /\ epoch = 0 /\ epochOut = << >>
  /\ owed = << >> /\ didSync = FALSE /\ prevIndices = << >> /\ destroyedIn = "none"
  /\ freed = FALSE /\ useAfterFree = FALSE
  /\ callerWrote = FALSE
  /\ earlyEpoch = FALSE

\* a loader right after loadFromMemory(samples); the augmentation settings of
\* the run are those of the configuration
PlanInit ==
  /\ memorySamples \in SampleLists(MaxOriginal)
  /\ augmentationFactor \in 0..MaxFactor
  /\ balanceAugmentation \in BOOLEAN
  /\ entries = LoadFromMemoryEntries(Len(memorySamples))
  /\ PlannerOff
  /\ ProviderOff
  /\ TrainerOff
  /\ RunnerOff

\* DataLoader::planAugmentation(augmentationFactor, balanceAugmentation), the whole call
PlanAugmentation ==
  /\ plans < MaxPlans
  /\ LET f == augmentationFactor
         b == balanceAugmentation
     IN
       /\ planThrew' = planAugmentationThrows(memorySamples, f, b)
       /\ entries' = IF planThrew' THEN entries
                     ELSE planAugmentation(entries, memorySamples, f, b, PlanRngSeed)
       /\ planLog' = IF plans = 0
                       THEN planLog \cup { [factor |-> f, balance |-> b,
                                            materialized |-> materialized,
                                            threw |-> planThrew', entries |-> entries'] }
                       ELSE planLog
  /\ plans' = plans + 1
  /\ UNCHANGED << memorySamples, augmentationFactor, balanceAugmentation, loads, materialized,
                  sample, sampleEntry >>
  /\ UNCHANGED << pstate, cvs, wvars, cvars, hist, callerWrote, trainvars, runvars, drivervars >>

\* DataLoader::loadFromMemory with the same samples again: a loader holding
\* identical original samples, its entries the 1:1 mapping
LoadFromMemory ==
  /\ loads < MaxLoads
  /\ entries' = LoadFromMemoryEntries(Len(memorySamples))
  /\ loads' = loads + 1
  /\ plans' = 0
  /\ planThrew' = FALSE
  /\ UNCHANGED << memorySamples, augmentationFactor, balanceAugmentation, planLog, materialized,
                  sample, sampleEntry >>
  /\ UNCHANGED << pstate, cvs, wvars, cvars, hist, callerWrote, trainvars, runvars, drivervars >>

\* what the generator of one loadBatch call can make the transforms do: 0 is
\* every coin of applyRandomTransforms coming up false
RngDraws == { 0, 1 }
MaxPixel == 3

\* ImageLoader::applyRandomTransforms / addGaussianNoise: the input vector is
\* rewritten in place, element by element, and clamped
applyRandomTransforms(data, rng) == [k \in 1..Len(data) |-> Min(data[k] + rng, MaxPixel)]

loadSampleRng_IgnoresFlag(ents, samples, entryIndex, rng) ==
  LET src == samples[ents[entryIndex + 1].sourceIndex + 1]
  IN [input |-> applyRandomTransforms(src.input, rng), output |-> src.output]

\* loadSample (lines 293-332, 336-379), in-memory source: a copy of the source
\* sample whose input is transformed if the entry is augmented
loadSampleRng(ents, samples, entryIndex, rng) ==
  LET src == samples[ents[entryIndex + 1].sourceIndex + 1]
  IN IF ents[entryIndex + 1].augmented
       THEN [input |-> applyRandomTransforms(src.input, rng), output |-> src.output]
       ELSE src

\* DataLoader::loadBatch (lines 181-196), a const member: it seeds a generator
\* of its own from std::random_device and reads entries and samples; the
\* batch it returns is dropped by the caller
Materialize ==
  /\ materialized < MaxMaterialized
  /\ Len(entries) > 0
  /\ materialized' = materialized + 1
  /\ UNCHANGED << entries, memorySamples, augmentationFactor, balanceAugmentation,
                  plans, loads, planLog, planThrew, sample, sampleEntry >>
  /\ UNCHANGED << pstate, cvs, wvars, cvars, hist, callerWrote, trainvars, runvars, drivervars >>

PlanNext ==
  \/ PlanAugmentation
  \/ LoadFromMemory
  \/ Materialize

PlanSpec == PlanInit /\ [][PlanNext]_vars

\* ---- materializing the entries of a planned loader (loadBatch, loadSample) -
MaxLoadOriginal == 2  \* largest number of original samples of the loader

LoadInit ==
  /\ PlanInit
  /\ Len(memorySamples) <= MaxLoadOriginal

\* DataLoader::loadBatch (lines 181-196) of one entry index, the batch kept
LoadBatch ==
  /\ materialized < MaxMaterialized
  /\ Len(entries) > 0
  /\ \E idx \in 0..(Len(entries) - 1), rng \in RngDraws :
       /\ sampleEntry' = idx
       /\ sample' = loadSampleRng(entries, memorySamples, idx, rng)
  /\ materialized' = materialized + 1
  /\ UNCHANGED << entries, memorySamples, augmentationFactor, balanceAugmentation,
                  plans, loads, planLog, planThrew >>
  /\ UNCHANGED << pstate, cvs, wvars, cvars, hist, callerWrote, trainvars, runvars, drivervars >>

LoadNext ==
  \/ PlanAugmentation
  \/ LoadBatch

LoadSpec == LoadInit /\ [][LoadNext]_vars

\* ---- the parallel gradient accumulator (CoreCPU::train, one mini-batch) --
\* ANN_CoreCPU.hpp declares the pieces (SampleWorker with its thread-local
\* accumulators, accumulatorMutex, resetAccumulators, accumulateToWorker,
\* mergeWorkerAccumulators, update); the body of train() follows section 4.3
\* of the design.  Tensors are folded into one integer per gradient.  A merge
\* is a read and a write of the shared accumulator, both inside one critical
\* section of accumulatorMutex.
MaxThreads == 3      \* largest number of training workers
MaxTrainBatch == 4   \* largest mini-batch
MaxStale == 1        \* largest value left in the accumulator by the batch before

MergeStrategies == { "direct", "perWorker" }

\* the gradient of sample i of the batch at the parameters of the batch
Grad(i) == 3 ^ i

\* contiguous chunks, one per worker w = 1..n, sizes differing by at most one
ChunkStart(w, b, n) == (w - 1) * (b \div n) + Min(w - 1, b % n)
ChunkEnd(w, b, n) == ChunkStart(w, b, n) + (b \div n) + (IF w <= b % n THEN 1 ELSE 0)

TrainInit ==
  /\ numThreads \in 1..MaxThreads
  /\ mergeStrategy \in MergeStrategies
  /\ trainSamples \in 1..MaxTrainBatch
  /\ accum \in 0..MaxStale
  /\ workers = [w \in 1..numThreads |-> [pc |-> "idle", next |-> 0, private |-> 0, seen |-> 0]]
  /\ mpc = "reset"
  /\ applied = 0
  /\ merged = [i \in 0..(trainSamples - 1) |-> 0]
  /\ readWhileMerging = FALSE
  /\ reported = [i \in 0..(trainSamples - 1) |-> [fired |-> 0, printed |-> 0]]
  /\ entries = << >> /\ memorySamples = << >>
  /\ augmentationFactor = 0 /\ balanceAugmentation = FALSE
  /\ PlannerOff
  /\ ProviderOff
  /\ RunnerOff

nontrain == << entries, pstate, cvs, wvars, cvars, hist, callerWrote, planvars, runvars, drivervars >>

\* resetAccumulators: the shared accumulator starts the batch at zero
ResetAccumulators ==
  /\ mpc = "reset"
  /\ accum' = 0
  /\ mpc' = "dispatch"
  /\ UNCHANGED << numThreads, mergeStrategy, trainSamples, workers, applied, merged,
                  readWhileMerging, reported, nontrain >>

\* the workers are started, each on its chunk, its own accumulator reset
\* (resetWorkerAccumulators); a worker without samples has nothing to compute
Dispatch ==
  /\ mpc = "dispatch"
  /\ workers' = [w \in 1..numThreads |->
       LET first == ChunkStart(w, trainSamples, numThreads)
           last == ChunkEnd(w, trainSamples, numThreads)
       IN [pc |-> IF first < last THEN "compute"
                  ELSE IF mergeStrategy = "perWorker" THEN "lock" ELSE "done",
           next |-> first, private |-> 0, seen |-> 0]]
  /\ mpc' = "join"
  /\ UNCHANGED << numThreads, mergeStrategy, trainSamples, accum, applied, merged,
                  readWhileMerging, reported, nontrain >>

\* shouldPrint of a progress bar that prints for every second sample only
shouldPrint_Throttled(currentSample, isEpochComplete) == currentSample % 2 = 0

\* ProgressBar::shouldPrint (NN-CLI_ProgressBar.cpp:156-162): always true
shouldPrint(currentSample, isEpochComplete) == TRUE

\* reportProgress for sample i: the training callback is invoked (under
\* callbackMutex); the callback of the runner hands the progress to
\* ProgressBar::update, which prints when shouldPrint allows it
reportProgress(rep, i) ==
  [rep EXCEPT ![i].fired = @ + 1,
              ![i].printed = IF shouldPrint(i, FALSE) THEN @ + 1 ELSE @]

\* forward and backward propagation of the worker's next sample, outside the
\* lock, and the progress report for the sample; with per-worker accumulation
\* the gradient goes into the worker's own accumulator (accumulateToWorker)
Compute(w) ==
  /\ workers[w].pc = "compute"
  /\ IF mergeStrategy = "direct"
       THEN workers' = [workers EXCEPT ![w].pc = "lock"]
       ELSE workers' = [workers EXCEPT
              ![w].private = @ + Grad(workers[w].next),
              ![w].next = @ + 1,
              ![w].pc = IF workers[w].next + 1 < ChunkEnd(w, trainSamples, numThreads)
                          THEN "compute" ELSE "lock"]
  /\ reported' = reportProgress(reported, workers[w].next)
  /\ UNCHANGED << numThreads, mergeStrategy, trainSamples, accum, mpc, applied, merged,
                  readWhileMerging, nontrain >>

\* BeginMerge of a worker that merges without taking accumulatorMutex
BeginMerge_NoMutex(w) ==
  /\ workers[w].pc = "lock"
  /\ workers' = [workers EXCEPT ![w].pc = "merging", ![w].seen = accum]
  /\ readWhileMerging' = (readWhileMerging \/ \E v \in 1..numThreads : workers[v].pc = "merging")
  /\ UNCHANGED << numThreads, mergeStrategy, trainSamples, accum, mpc, applied, merged, reported, nontrain >>

\* the worker takes accumulatorMutex and reads the shared accumulator
BeginMerge(w) ==
  /\ workers[w].pc = "lock"
  /\ \A v \in 1..numThreads : workers[v].pc # "merging"
  /\ workers' = [workers EXCEPT ![w].pc = "merging", ![w].seen = accum]
  /\ readWhileMerging' = (readWhileMerging \/ \E v \in 1..numThreads : workers[v].pc = "merging")
  /\ UNCHANGED << numThreads, mergeStrategy, trainSamples, accum, mpc, applied, merged, reported, nontrain >>

\* the worker writes the sum back and releases accumulatorMutex: the gradient
\* of one sample (direct) or its own accumulator over its whole chunk
\* (mergeWorkerAccumulators)
EndMerge(w) ==
  /\ workers[w].pc = "merging"
  /\ IF mergeStrategy = "direct"
       THEN /\ accum' = workers[w].seen + Grad(workers[w].next)
            /\ merged' = [merged EXCEPT ![workers[w].next] = @ + 1]
            /\ workers' = [workers EXCEPT
                 ![w].next = @ + 1,
                 ![w].pc = IF workers[w].next + 1 < ChunkEnd(w, trainSamples, numThreads)
                             THEN "compute" ELSE "done"]
       ELSE /\ accum' = workers[w].seen + workers[w].private
            /\ merged' = [i \in DOMAIN merged |->
                 IF /\ ChunkStart(w, trainSamples, numThreads) <= i
                    /\ i < ChunkEnd(w, trainSamples, numThreads)
                   THEN merged[i] + 1 ELSE merged[i]]
            /\ workers' = [workers EXCEPT ![w].pc = "done"]
  /\ UNCHANGED << numThreads, mergeStrategy, trainSamples, mpc, applied,
                  readWhileMerging, reported, nontrain >>

\* Join that goes on to the update without waiting for the workers
Join_NoWait ==
  /\ mpc = "join"
  /\ mpc' = "update"
  /\ UNCHANGED << numThreads, mergeStrategy, trainSamples, accum, workers, applied, merged,
                  readWhileMerging, reported, nontrain >>

\* the training thread waits until every worker has completed
Join ==
  /\ mpc = "join"
  /\ \A w \in 1..numThreads : workers[w].pc = "done"
  /\ mpc' = "update"
  /\ UNCHANGED << numThreads, mergeStrategy, trainSamples, accum, workers, applied, merged,
                  readWhileMerging, reported, nontrain >>

\* update(numSamples): the accumulator is read, scaled by learningRate /
\* batchSize and subtracted from the parameters, on the training thread
Update ==
  /\ mpc = "update"
  /\ applied' = accum
  /\ readWhileMerging' = (readWhileMerging \/ \E w \in 1..numThreads : workers[w].pc = "merging")
  /\ mpc' = "done"
  /\ UNCHANGED << numThreads, mergeStrategy, trainSamples, accum, workers, merged, reported, nontrain >>

TrainNext ==
  \/ ResetAccumulators
  \/ Dispatch
  \/ \E w \in 1..numThreads : Compute(w)
  \/ \E w \in 1..numThreads : BeginMerge(w)
  \/ \E w \in 1..numThreads : EndMerge(w)
  \/ Join
  \/ Update

TrainSpec == TrainInit /\ [][TrainNext]_vars

\* ---- a run of the command line in training or test mode ------------------
\* Runner::run (NN-CLI_Runner.cpp:99-109) with runANNTrain / runANNTest and
\* their CNN twins, whose sample loading and training callback are the same code
MaxInterval == 2     \* largest saveModelInterval
MaxEpoch == 3        \* largest currentEpoch a training callback reports
MaxCallbacks == 4    \* training callbacks made in one run

\* loadANNSamplesFromOptions that lets --samples win over --idx-data
loadSamplesFromOptions_JsonWins(json, idxData, idxLabels) ==
  IF json THEN [success |-> TRUE, from |-> "json"]
  ELSE IF idxData
    THEN IF ~idxLabels THEN [success |-> FALSE, from |-> "none"]
         ELSE [success |-> TRUE, from |-> "idx"]
  ELSE [success |-> FALSE, from |-> "none"]

\* Runner::loadANNSamplesFromOptions (lines 504-550) and
\* Runner::loadCNNSamplesFromOptions (lines 554-602): the pair returned, the
\* samples named by the format they were read from
loadSamplesFromOptions(json, idxData, idxLabels) ==
  IF json /\ idxData THEN [success |-> FALSE, from |-> "none"]
  ELSE IF json THEN [success |-> TRUE, from |-> "json"]
  ELSE IF idxData
    THEN IF ~idxLabels THEN [success |-> FALSE, from |-> "none"]
         ELSE [success |-> TRUE, from |-> "idx"]
  ELSE [success |-> FALSE, from |-> "none"]

RunInit ==
  /\ hasJsonSamples \in BOOLEAN /\ hasIdxData \in BOOLEAN /\ hasIdxLabels \in BOOLEAN
  /\ networkType \in { "ANN", "CNN" }
  /\ mode \in { "train", "test" }
  /\ saveModelInterval \in 0..MaxInterval
  /\ rpc = "start"
  /\ loadSuccess = FALSE /\ samplesFrom = "none" /\ exitCode = "none"
  /\ lastCallbackEpoch = 0
  /\ callbacks = << >> /\ checkpoints = << >>
  /\ entries = << >> /\ memorySamples = << >>
  /\ augmentationFactor = 0 /\ balanceAugmentation = FALSE
  /\ PlannerOff
  /\ ProviderOff
  /\ TrainerOff

nonrun == << entries, pstate, cvs, wvars, cvars, hist, callerWrote, planvars, trainvars, drivervars >>

\* lines 113-116, 172-175, 308-311, 367-370: the run loads its samples and
\* returns 1 when that failed
LoadSamplesFromOptions ==
  /\ rpc = "start"
  /\ LET loaded == loadSamplesFromOptions(hasJsonSamples, hasIdxData, hasIdxLabels)
     IN /\ loadSuccess' = loaded.success
        /\ samplesFrom' = loaded.from
        /\ IF ~loaded.success
             THEN exitCode' = 1 /\ rpc' = "exited"
             ELSE exitCode' = exitCode /\ rpc' = (IF mode = "train" THEN "training" ELSE "testing")
  /\ UNCHANGED << hasJsonSamples, hasIdxData, hasIdxLabels, networkType, mode,
                  saveModelInterval, lastCallbackEpoch, callbacks, checkpoints, nonrun >>

\* TrainingCallback that tests the epoch reported instead of the epoch completed
TrainingCallback_TestsNewEpoch(currentEpoch) ==
  /\ rpc = "training" /\ Len(callbacks) < MaxCallbacks
  /\ callbacks' = Append(callbacks, currentEpoch)
  /\ IF saveModelInterval > 0 /\ currentEpoch > lastCallbackEpoch
       THEN /\ checkpoints' =
                 IF lastCallbackEpoch > 0 /\ currentEpoch % saveModelInterval = 0
                   THEN Append(checkpoints, [epoch |-> lastCallbackEpoch, at |-> Len(callbacks')])
                   ELSE checkpoints
            /\ lastCallbackEpoch' = currentEpoch
       ELSE UNCHANGED << checkpoints, lastCallbackEpoch >>
  /\ UNCHANGED << hasJsonSamples, hasIdxData, hasIdxLabels, networkType, mode, rpc,
                  loadSuccess, samplesFrom, exitCode, saveModelInterval, nonrun >>

\* lines 122-147 (ANN) and 317-342 (CNN): the training callback, invoked by
\* the library with progress.currentEpoch
TrainingCallback(currentEpoch) ==
  /\ rpc = "training" /\ Len(callbacks) < MaxCallbacks
  /\ callbacks' = Append(callbacks, currentEpoch)
  /\ IF saveModelInterval > 0 /\ currentEpoch > lastCallbackEpoch
       THEN /\ checkpoints' =
                 IF lastCallbackEpoch > 0 /\ lastCallbackEpoch % saveModelInterval = 0
                   THEN Append(checkpoints, [epoch |-> lastCallbackEpoch, at |-> Len(callbacks')])
                   ELSE checkpoints
            /\ lastCallbackEpoch' = currentEpoch
       ELSE UNCHANGED << checkpoints, lastCallbackEpoch >>
  /\ UNCHANGED << hasJsonSamples, hasIdxData, hasIdxLabels, networkType, mode, rpc,
                  loadSuccess, samplesFrom, exitCode, saveModelInterval, nonrun >>

\* lines 149-167, 176-191: train() or the test returned, the run returns 0
RunCompleted ==
  /\ rpc \in { "training", "testing" }
  /\ exitCode' = 0
  /\ rpc' = "exited"
  /\ UNCHANGED << hasJsonSamples, hasIdxData, hasIdxLabels, networkType, mode,
                  loadSuccess, samplesFrom, saveModelInterval, lastCallbackEpoch,
                  callbacks, checkpoints, nonrun >>

RunNext ==
  \/ LoadSamplesFromOptions
  \/ \E e \in 0..MaxEpoch : TrainingCallback(e)
  \/ RunCompleted

RunSpec == RunInit /\ [][RunNext]_vars

\* ---- properties ----------------------------------------------------------
\* the range of the call in progress (lines 242-244)
numSamples == Len(sampleIndices)
start == Start(batchIndex, batchSize)
end == End(batchIndex, batchSize, numSamples)

\* the materialization of the range of the call in progress
OwnRange == loadBatch(entries, Slice(sampleIndices, start, end))

\* C1 (batch coverage): in the first epoch of a fresh provider, driven in
\* order by one caller, every call returns the materialization of its own
\* range of the index list, and the batches returned over the whole epoch,
\* concatenated, are the materialization of the index list.
C1_BatchCoverage ==
  (epoch = 1 /\ cpc = "return") =>
    /\ batch = OwnRange
    /\ (end = numSamples => epochOut \o batch = loadBatch(entries, sampleIndices))

\* C2 (epoch isolation): after a complete epoch over a list A, the call with
\* batchIndex = 0 and a different list B returns the materialization of
\* B[0, min(batchSize, |B|)), never a batch prefetched from A.
C2_EpochIsolation ==
  (epoch >= 2 /\ batchIndex = 0 /\ sampleIndices # prevIndices /\ cpc = "return") =>
    batch = loadBatch(entries, Slice(sampleIndices, 0, Min(batchSize, numSamples)))

\* C3 (prefetch transparency): over consecutive full epochs every call of the
\* prefetching provider returns what a provider materializing synchronously
\* on the calling thread returns for the same arguments.
C3_PrefetchTransparency ==
  cpc = "return" => batch = SyncProvider(entries, sampleIndices, batchSize, batchIndex)

\* C4: a pending request and a ready result never coexist.
C4_RequestXorResult == ~(hasRequest /\ hasResult)

\* C5: when the worker owes the caller a batch as a call begins (its request
\* is pending, in flight or published), the call returns that batch and does
\* not materialize on the calling thread.
C5_OwedBatchIsReturned ==
  (cpc = "return" /\ owed # << >>) => (batch = owed /\ ~didSync)

\* C6: after the call that reaches the end of the index list has returned and
\* the worker has come to rest, the provider is Idle: no pending request, no
\* materialization in flight, no ready result.
C6_IdleAfterLastBatch ==
  (cpc = "idle" /\ calls > 0 /\ end = numSamples /\ wpc = "sleep") =>
    (~hasRequest /\ ~hasResult)

\* C7: under fair scheduling of both threads every provider call returns, and
\* a caller blocked on callerCV is eventually woken with a result to take
\* (it leaves the wait holding the batch it took from the result slot).
C7_CallReturns ==
  /\ (cpc \in {"check", "wait", "sync", "submit", "notify", "return"}) ~> (cpc = "idle")
  /\ (cpc = "wait") ~> (cpc = "sync" /\ batch # << >>)

\* a caller is blocked on callerCV: a request is pending and no result is ready
C7_Witness == cpc = "wait" /\ callerCVWaiting /\ hasRequest /\ ~hasResult

\* C8: once shutdown is requested and the worker notified, the worker thread
\* terminates, whatever it was doing, and the destructor's join returns.
C8_WorkerTerminates ==
  /\ (shutdown /\ cpc = "d_join") ~> (wpc = "done")
  /\ (cpc = "d_join") ~> (cpc = "destroyed")

\* the worker has terminated after a shutdown requested in mid-materialization
C8_Witness == wpc = "done" /\ cpc = "destroyed" /\ destroyedIn = "inflight"

\* C9: the worker never touches the PrefetchState after its release: when the
\* state is freed, shutdown has been requested and the worker has terminated.
C9_NoUseAfterFree ==
  /\ ~useAfterFree
  /\ freed => (shutdown /\ wpc = "done")

\* the state was released after a destruction that began with a request pending
C9_Witness == freed /\ destroyedIn = "pending"

\* C10 as stated: the result slot changes only in steps of the worker and the
\* request slot changes only in steps of the caller.
C10_SingleWriter ==
  [][ /\ (<< result, hasResult >>' # << result, hasResult >>) => wpc' # wpc
      /\ (<< requestIndices, hasRequest >>' # << requestIndices, hasRequest >>) => cpc' # cpc
    ]_vars

\* C10 as amended: each slot has one producer and one consumer.  The result slot
\* is filled only by the worker's publish and emptied only by the caller taking
\* the batch; the request slot is filled only by the caller's submit and emptied
\* only by the worker's dequeue.
C10_ProducerConsumer ==
  [][ /\ (<< result, hasResult >>' # << result, hasResult >>) =>
           \/ /\ wpc = "publish" /\ wpc' # wpc /\ cpc' = cpc
              /\ hasResult' /\ result' = wBatch
           \/ /\ cpc \in {"check", "wait"} /\ cpc' # cpc /\ wpc' = wpc
              /\ hasResult /\ ~hasResult' /\ batch' = result
      /\ (<< requestIndices, hasRequest >>' # << requestIndices, hasRequest >>) =>
           \/ /\ cpc = "submit" /\ cpc' # cpc /\ wpc' = wpc
              /\ hasRequest'
           \/ /\ wpc = "wait" /\ wpc' # wpc /\ cpc' = cpc
              /\ hasRequest /\ ~hasRequest' /\ wIndices' = requestIndices
    ]_vars

\* the caller has taken a batch the worker published for a request of the caller
C10_Witness == cpc = "sync" /\ batch # << >> /\ batch = owed


\* ---- properties of the augmentation plan ---------------------------------
originalCount == Len(memorySamples)

\* the class of the original sample an entry refers to
EntryClass(e) == getClassIndex(memorySamples[e.sourceIndex + 1].output)

\* the classes that occur among the original samples
PresentClasses == { getClassIndex(memorySamples[i].output) : i \in 1..originalCount }

\* number of original samples of a class, number of entries of a class
OriginalsOfClass(c) ==
  Cardinality({ i \in 1..originalCount : getClassIndex(memorySamples[i].output) = c })
EntriesOfClass(c) ==
  Cardinality({ i \in 1..Len(entries) : EntryClass(entries[i]) = c })

\* the size of the largest class
LargestClass ==
  CHOOSE m \in 0..originalCount :
    /\ \A c \in PresentClasses : OriginalsOfClass(c) <= m
    /\ (m > 0 => \E c \in PresentClasses : OriginalsOfClass(c) = m)

\* the synthetic entries planAugmentation makes for a class, and the position
\* in the entry list where the entries made for the class begin
Generated(c) ==
  toGenerate(OriginalsOfClass(c),
             targetCount(OriginalsOfClass(c), LargestClass,
                         augmentationFactor, balanceAugmentation))
RECURSIVE GeneratedBelow(_)
GeneratedBelow(c) ==
  IF c = 0 THEN 0
  ELSE GeneratedBelow(c - 1) + (IF c - 1 \in PresentClasses THEN Generated(c - 1) ELSE 0)
BlockStart(c) == originalCount + GeneratedBelow(c)

\* one planAugmentation has run on the freshly loaded samples
Planned == plans = 1 /\ ~planThrew

\* C13: with balanceAugmentation = true, after planAugmentation every class
\* that occurs among the original samples has the same number of entries,
\* maxClassCount * max(1, augmentationFactor)
C13_ClassBalance ==
  (Planned /\ balanceAugmentation) =>
    \A c \in PresentClasses :
      EntriesOfClass(c) = LargestClass * Max(1, augmentationFactor)

\* a balanced plan over classes of different sizes that made synthetic entries
C13_Witness ==
  /\ Planned /\ balanceAugmentation
  /\ \E c, d \in PresentClasses : OriginalsOfClass(c) < OriginalsOfClass(d)
  /\ Len(entries) > originalCount

\* C14: after planAugmentation the first originalCount entries are
\* {i, augmented = false} in original order, every later entry is augmented,
\* and the synthetic entries are grouped by class in ascending class index,
\* within a class in the order the generator's draws made them
C14_EntryOrdering ==
  Planned =>
    /\ Len(entries) >= originalCount
    /\ \A i \in 1..originalCount : entries[i] = [sourceIndex |-> i - 1, augmented |-> FALSE]
    /\ \A i \in (originalCount + 1)..Len(entries) : entries[i].augmented
    /\ \A i, j \in (originalCount + 1)..Len(entries) :
         i < j => EntryClass(entries[i]) <= EntryClass(entries[j])
    /\ \A j \in 1..(Len(entries) - originalCount) :
         LET cls == EntryClass(entries[originalCount + j])
             own == SelectSeq(Ascending(originalCount),
                              LAMBDA i : getClassIndex(memorySamples[i + 1].output) = cls)
         IN entries[originalCount + j].sourceIndex
              = own[(Mt19937(PlanSeed, j - 1) % Len(own)) + 1]

\* a plan with synthetic entries of two classes
C14_Witness ==
  /\ Planned
  /\ \E i, j \in (originalCount + 1)..Len(entries) :
       EntryClass(entries[i]) < EntryClass(entries[j])

\* C15: every entry's sourceIndex is a position of the original sample list,
\* and every synthetic entry made for a class refers to an original sample of
\* that class
C15_SourceOfOwnClass ==
  /\ \A i \in 1..Len(entries) :
       entries[i].sourceIndex >= 0 /\ entries[i].sourceIndex < originalCount
  /\ Planned =>
       \A c \in PresentClasses :
         \A i \in (BlockStart(c) + 1)..(BlockStart(c) + Generated(c)) :
           /\ i <= Len(entries)
           /\ entries[i].augmented
           /\ EntryClass(entries[i]) = c

\* synthetic entries were made for a class that is not the only class and has
\* several original samples to draw from
C15_Witness ==
  /\ Planned
  /\ \E c \in PresentClasses :
       /\ Generated(c) > 0 /\ OriginalsOfClass(c) > 1
       /\ PresentClasses # {c}
       /\ BlockStart(c) + Generated(c) <= Len(entries)

C17_NoAugmentationNoChange ==
  (plans >= 1 /\ augmentationFactor = 0 /\ ~balanceAugmentation) =>
    /\ Len(entries) = originalCount
    /\ \A i \in 1..originalCount : entries[i] = [sourceIndex |-> i - 1, augmented |-> FALSE]

\* planAugmentation(0, false) has run on a loader that holds samples
C17_Witness ==
  /\ plans >= 1 /\ augmentationFactor = 0 /\ ~balanceAugmentation
  /\ originalCount > 0

\* planAugmentation was called on an empty sample list with augmentation asked for
EmptyPlanned ==
  /\ plans >= 1 /\ originalCount = 0
  /\ (augmentationFactor > 0 \/ balanceAugmentation)

\* C18 as stated: planAugmentation on a zero-sized manifest with augmentation
\* requested is rejected with an error
C18_EmptyManifestRejected == EmptyPlanned => planThrew

\* C18: planAugmentation on a zero-sized manifest with augmentation requested
\* returns without an error and leaves the entry list empty; no provider
\* worker thread is started by it
C18_EmptyManifestNoOp ==
  EmptyPlanned => (~planThrew /\ entries = << >> /\ wpc = "unstarted")

C18_Witness == EmptyPlanned

\* ---- properties of failing materializations ------------------------------
\* C19: a failure of the materialization made synchronously inside a provider
\* call ends the call with the failure, nothing is returned, and the call has
\* not written the PrefetchState: it submitted no request and took or
\* published no result
C19_SyncFailurePropagates ==
  cpc = "failed" => (~callerWrote /\ batch = << >>)

\* a call failed after an earlier call had handed a request to the worker
C19_Witness ==
  cpc = "failed" /\ calls > 1

\* C20: when the materialization fails on the worker thread nothing is
\* published in the result slot for the failed request, neither a batch nor
\* an error value, and no provider call returns after it
C20_WorkerFailureNotDelivered ==
  /\ [][ (wpc = "load" /\ wpc' # "load" /\ wBatch' = << >>) =>
          (result' = result /\ hasResult' = hasResult /\ cpc' = "aborted") ]_vars
  /\ [](wpc = "terminated" => cpc = "aborted")

\* the worker failed while the caller was blocked waiting for its result
C20_Witness ==
  wpc = "terminated" /\ cpc = "aborted" /\ callerCVWaiting

\* ---- properties of the gradient accumulator ------------------------------
\* the sum of the per-sample gradients of the batch, added in sample order:
\* what one worker computes
RECURSIVE SerialSum(_)
SerialSum(n) == IF n = 0 THEN 0 ELSE SerialSum(n - 1) + Grad(n - 1)

AllJoined == mpc \in { "update", "done" }

\* C11: after all workers have joined, the shared accumulator equals the sum
\* of the per-sample gradients of the batch, each sample counted exactly once,
\* for every worker count and both merge strategies; it is the total one
\* worker computes
C11_GradientMergeEquivalence ==
  AllJoined =>
    /\ accum = SerialSum(trainSamples)
    /\ \A i \in DOMAIN merged : merged[i] = 1

\* several workers, each with samples of its own, have joined
C11_Witness ==
  /\ AllJoined
  /\ numThreads > 1 /\ trainSamples > numThreads

\* C12: the scale-and-apply step starts only after every worker of the batch
\* has finished merging, and no thread reads the shared accumulator while
\* another thread is merging into it
C12_UpdateAfterMerges ==
  /\ AllJoined => \A w \in 1..numThreads : workers[w].pc = "done"
  /\ ~readWhileMerging

\* the update has been applied to a batch merged by several workers
C12_Witness ==
  /\ mpc = "done" /\ numThreads > 1
  /\ applied = SerialSum(trainSamples) /\ applied > 0

BadFormatSelection ==
  \/ hasJsonSamples /\ hasIdxData
  \/ hasIdxData /\ ~hasIdxLabels
  \/ ~hasJsonSamples /\ ~hasIdxData

\* C22: loading the samples from the command-line options fails (failure
\* returned, no samples loaded, the run exits with code 1) when both --samples
\* and --idx-data are set, when --idx-data is set without --idx-labels, and
\* when neither --samples nor --idx-data is set
C22_OneInputFormat ==
  (rpc # "start" /\ BadFormatSelection) =>
    (~loadSuccess /\ samplesFrom = "none" /\ rpc = "exited" /\ exitCode = 1)

\* a run given both formats has exited with code 1
C22_Witness ==
  /\ rpc = "exited" /\ exitCode = 1
  /\ hasJsonSamples /\ hasIdxData /\ hasIdxLabels

\* the callbacks made so far never went back to an earlier epoch
NonDecreasing == \A i, j \in 1..Len(callbacks) : i < j => callbacks[i] <= callbacks[j]

\* the first callback after callback i that reports a later epoch than callback i
FirstLater(i) ==
  CHOOSE j \in (i + 1)..Len(callbacks) :
    /\ callbacks[j] > callbacks[i]
    /\ \A h \in (i + 1)..(j - 1) : callbacks[h] <= callbacks[i]

\* C30: with saveModelInterval = k > 0 and callbacks whose currentEpoch never
\* decreases, a checkpoint is written exactly once for each epoch E >= 1 with
\* E mod k = 0 that was reported and is followed by a callback of a later
\* epoch, at the first such callback; none is written for any other epoch,
\* and none at all with k = 0
C30_CheckpointInterval ==
  /\ saveModelInterval = 0 => checkpoints = << >>
  /\ (saveModelInterval > 0 /\ NonDecreasing) =>
       /\ \A i \in 1..Len(callbacks) :
            ( /\ callbacks[i] >= 1 /\ callbacks[i] % saveModelInterval = 0
              /\ \E j \in (i + 1)..Len(callbacks) : callbacks[j] > callbacks[i] )
            => /\ Cardinality({ c \in 1..Len(checkpoints) :
                                  checkpoints[c].epoch = callbacks[i] }) = 1
               /\ \E c \in 1..Len(checkpoints) :
                    checkpoints[c] = [epoch |-> callbacks[i], at |-> FirstLater(i)]
       /\ \A c \in 1..Len(checkpoints) :
            /\ checkpoints[c].epoch >= 1
            /\ checkpoints[c].epoch % saveModelInterval = 0
            /\ \E i \in 1..Len(callbacks) :
                 /\ callbacks[i] = checkpoints[c].epoch
                 /\ \E j \in (i + 1)..Len(callbacks) : callbacks[j] > callbacks[i]

\* epochs 1, 2, 3 were reported in order with an interval of 2: the checkpoint
\* of epoch 2 was written, that of epoch 1 was not
C30_Witness ==
  /\ saveModelInterval = 2 /\ NonDecreasing
  /\ Len(callbacks) >= 3 /\ callbacks[1] = 1
  /\ checkpoints = << [epoch |-> 2, at |-> Len(callbacks)] >>

\* ---- further properties of the provider ------------------------------------
\* C23: every request submitted is dequeued by the worker exactly once and its
\* result consumed by exactly one later call: no call submits a request while
\* an earlier request is still pending, and the worker publishes no result
\* while an earlier result is still in the result slot
C23_NoOverwrite ==
  [][ /\ ~(cpc = "submit" /\ cpc' = "notify" /\ hasRequest)
      /\ ~(wpc = "publish" /\ wpc' = "notify" /\ hasResult) ]_vars

\* C24: when the caller starts a new epoch (batchIndex = 0, another index
\* list) before it has asked for the last batch of the epoch in progress, the
\* call returns the materialization of the first range of the new list, not
\* the batch prefetched for the abandoned epoch
C24_EarlyEpochIsFresh ==
  (cpc = "return" /\ earlyEpoch) =>
    batch = loadBatch(entries, Slice(sampleIndices, 0, Min(batchSize, numSamples)))

\* C25: a call whose range ends before the end of the index list submits
\* exactly indices[end, min(end + batchSize, n)) as its request, a call with
\* end >= n submits no request, and a call with batchIndex * batchSize >= n
\* on an Idle provider returns an empty batch
C25_RequestRanges ==
  /\ [][ (cpc = "submit" /\ cpc' # "submit") =>
           IF end < numSamples
             THEN /\ hasRequest'
                  /\ requestIndices' = Slice(sampleIndices, end, Min(end + batchSize, numSamples))
             ELSE /\ cpc' = "return"
                  /\ requestIndices' = requestIndices /\ hasRequest' = hasRequest ]_vars
  /\ []((cpc = "return" /\ start >= numSamples /\ owed = << >>) => batch = << >>)

\* a call behind the end of the list has come back empty from an Idle
\* provider, after calls that submitted requests
C25_Witness ==
  /\ cpc = "return" /\ start >= numSamples /\ owed = << >> /\ batch = << >>
  /\ calls > 2
\* C26: materializing an entry never changes the entries or the samples of
\* the loader and returns the source sample's expected output; an entry that
\* is not augmented is materialized as an exact copy of its source sample
C26_MaterializationFrame ==
  [][ materialized' = materialized + 1 =>
        LET src == memorySamples[entries[sampleEntry' + 1].sourceIndex + 1]
        IN /\ entries' = entries
           /\ memorySamples' = memorySamples
           /\ sample'.output = src.output
           /\ (~entries[sampleEntry' + 1].augmented => sample' = src) ]_vars

\* an augmented entry was materialized with a transformed input and the
\* expected output of its source
C26_Witness ==
  /\ materialized > 0 /\ sampleEntry < Len(entries)
  /\ entries[sampleEntry + 1].augmented
  /\ sample.input # memorySamples[entries[sampleEntry + 1].sourceIndex + 1].input
  /\ sample.output = memorySamples[entries[sampleEntry + 1].sourceIndex + 1].output

\* C27: a second planAugmentation with the same arguments on the same loader
\* leaves the entries as the first call left them
C27_SecondPlanIsNoOp ==
  (plans >= 2 /\ ~planThrew) => \A r \in planLog : r.entries = entries

\* the synthetic entries made from the original samples of a class
SyntheticOfClass(c) ==
  Cardinality({ i \in 1..Len(entries) : entries[i].augmented /\ EntryClass(entries[i]) = c })

\* C28: with balanceAugmentation = false and augmentationFactor = f >= 1,
\* after planAugmentation every class has f * currentCount entries, of which
\* (f - 1) * currentCount are synthetic; numSamples() = f * originalCount, and
\* f = 1 adds no entry
C28_FactorWithoutBalance ==
  (Planned /\ ~balanceAugmentation /\ augmentationFactor >= 1) =>
    /\ \A c \in PresentClasses :
         /\ EntriesOfClass(c) = augmentationFactor * OriginalsOfClass(c)
         /\ SyntheticOfClass(c) = (augmentationFactor - 1) * OriginalsOfClass(c)
    /\ Len(entries) = augmentationFactor * originalCount
    /\ (augmentationFactor = 1 => entries = LoadFromMemoryEntries(originalCount))

\* an unbalanced plan with a factor above one over classes of different sizes
C28_Witness ==
  /\ Planned /\ ~balanceAugmentation /\ augmentationFactor >= 2
  /\ \E c, d \in PresentClasses : OriginalsOfClass(c) < OriginalsOfClass(d)
  /\ Len(entries) = augmentationFactor * originalCount
  /\ \E c \in PresentClasses : SyntheticOfClass(c) > 0

\* c is the smallest index at which the vector attains its maximum
IsFirstMaximum(output, c) ==
  /\ c + 1 \in 1..Len(output)
  /\ \A q \in 1..Len(output) : output[q] <= output[c + 1]
  /\ \A q \in 1..c : output[q] < output[c + 1]

\* the original samples, and the entries, whose expected output has its first
\* maximum where the output of original sample i has it
SameFirstMaximum(i, j) ==
  \A c \in 0..(NumClasses - 1) :
    IsFirstMaximum(memorySamples[i].output, c) <=> IsFirstMaximum(memorySamples[j].output, c)
OriginalsLike(i) == Cardinality({ j \in 1..originalCount : SameFirstMaximum(i, j) })
EntriesLike(i) ==
  Cardinality({ k \in 1..Len(entries) : SameFirstMaximum(i, entries[k].sourceIndex + 1) })
LargestLike ==
  CHOOSE m \in 0..originalCount :
    /\ \A i \in 1..originalCount : OriginalsLike(i) <= m
    /\ (m > 0 => \E i \in 1..originalCount : OriginalsLike(i) = m)

\* C29: the class planAugmentation gives a sample is the smallest index at
\* which its expected output attains its maximum, and the plan counts and
\* fills the classes by that index: samples sharing it share one target
C29_ClassIsFirstMaximum ==
  Planned =>
    /\ LET ci == classIndices(memorySamples)
       IN \A cls \in DOMAIN ci :
            \A k \in 1..Len(ci[cls]) : IsFirstMaximum(memorySamples[ci[cls][k] + 1].output, cls)
    /\ \A i \in 1..originalCount :
         EntriesLike(i) = targetCount(OriginalsLike(i), LargestLike,
                                      augmentationFactor, balanceAugmentation)

\* a plan made synthetic entries from a sample whose maximum is shared by two
\* positions, next to a sample of the class of the later position
C29_Witness ==
  /\ Planned
  /\ \E i, j \in 1..originalCount :
       /\ \E p, q \in 1..Len(memorySamples[i].output) :
            /\ p < q
            /\ memorySamples[i].output[p] = memorySamples[i].output[q]
            /\ IsFirstMaximum(memorySamples[i].output, p - 1)
            /\ IsFirstMaximum(memorySamples[j].output, q - 1)
       /\ \E k \in 1..Len(entries) : entries[k].augmented /\ entries[k].sourceIndex = i - 1

====
